---- MODULE Spec2Model ----
(***************************************************************************)
(* Model of the stdio JSON-RPC bridge of git-mcp-server:                   *)
(*   MCPClient          (src/src/mcp_servers/mcp_client.py)                *)
(*   GitAnalyzerClient  (src/git_analyzer_mcp_server/git_analyzer_client.py)*)
(*   MCPChatbot         (src/src/mcp_chatbot.py)                           *)
(* The child processes are the environment: they consume the lines the     *)
(* client writes, may answer or stay silent, and may exit at any time.     *)
(* Callers are asyncio tasks: a task keeps the event loop until it reaches *)
(* a suspension point or returns.                                          *)
(***************************************************************************)
EXTENDS Integers, Sequences, FiniteSets, TLC

\* ---------------------------------------------------------------- bounds
MaxOps == 4          \* client operations (start / call / close) begun in one run
TimeoutTicks == 1
\* the lines a client writes to the git-analyzer server in one run
MaxLines == 3
\* the seconds the git-analyzer server's clock runs through
MaxClock == 2
\* the analyze_repository calls of one run
MaxAnalyses == 3
\* the largest max_context_length a ContextManager is constructed with
MaxContext == 2
\* the messages added to one ContextManager between two clear_context calls
MaxAdded == 5
\* the process_message calls of one session
MaxMessages == 2
\* clock ticks that make up the "bounded wait" of a call
MaxWait == TimeoutTicks + 1

\* ------------------------------------------------------------- constants
Handles == {"filesystem", "git", "analyzer"}
Clients == {"mcp", "analyzer_client"}
Tasks == {"t1", "t2"}
NoTask == "none"
BotTask == "t1"

\* the order in which close() visits the fields of a client
CloseOrder(c) == IF c = "mcp" THEN <<"filesystem", "git">> ELSE <<"analyzer">>

ClientOf(h) == IF h = "analyzer" THEN "analyzer_client" ELSE "mcp"

\* "id": 1 of the initialize request
InitRequestId == 1

\* "id": 1 of every request built by _send_mcp_request
RequestId(h) == 1

\* id member of a message that has none (a notification)
NoId == 0

VARIABLES
    spawnOk,     \* [h] the backend's executable can be launched
    process_field,      \* [h] the client's <h>_process field is not None
    proc,        \* [h] "none" | "running" | "exited": the process the field refers to
    orphaned,    \* [h] an earlier process of h was dropped while still running
    stdinLog,    \* [h] the messages written to the current process's stdin
    served,      \* [h] how many of them the backend has consumed
    stdout,      \* [h] the lines the backend wrote that the client has not read
    hs,          \* [h] handshake state of the current process
    termSent,    \* [h] a termination signal was sent to the current process
    pc,          \* [t] position of task t inside a client operation
    target,      \* [t] the backend task t is working on
    reqPos,      \* [t] position in stdinLog of the request task t wrote and waits on
    ret,         \* what the operation that returned last returned
    running,     \* the task that holds the event loop, or NoTask
    opCount,     \* operations begun so far
    waited,      \* ticks the current blocking read has waited
    closedOnce,  \* [c] close() has returned on client c since its last start
    reclosed,    \* [c] a close() begun after an earlier close() returned did a terminate
    botpc,       \* position of MCPChatbot.run_interactive
    initResult,  \* what MCPChatbot.initialize returned: "none" | "ok" | "failed"
    mcp_servers, \* Chatbot.mcp_servers: [name] the client registered, or NoClient
    firstClient, \* [name] the client of the first add_mcp_server under that name
    handled,     \* how Chatbot._check_mcp_usage dealt with the last message
    srvUp,       \* the git-analyzer server process is in its main loop
    srvIn,       \* the lines on the git-analyzer server's stdin, not yet read
    srvOut,      \* the lines the git-analyzer server has printed
    now,         \* datetime.now() in the git-analyzer server, in whole seconds
    analysis_cache, \* GitAnalyzerServer.analysis_cache: [id] the data stored, or NoData
    issued,      \* [id] the data of the first analysis that returned id, or NoData
    cwd,         \* os.getcwd() of the git-analyzer server process
    analysisCount, \* analyze_repository calls so far
    lastResult,  \* what the last tool method of GitAnalyzerServer returned
    context,     \* ContextManager.context: the messages kept, oldest first
    max_context_length, \* ContextManager.max_context_length
    added,       \* every message added since the last clear_context, oldest first
    msgCount,    \* process_message calls so far
    last_message, \* the user message of the last process_message call
    consulted,   \* the detectors that call consulted, in order, and what each reported
    executed,    \* the executors that call ran ("conversation": the model was asked)
    detected,    \* the intent that call acted on, or NoIntent
    tool_calls,  \* the tool calls the executor of that call made
    results,     \* what the client returned for each of them
    response,    \* what that call returned
    fs_files,    \* the files of the filesystem, by absolute path
    fs_dirs,     \* its directories
    fs_touched,  \* what the last call of a FilesystemMCPClient method read, wrote, made or removed
    fs_result    \* what that call returned

procVars == <<spawnOk, process_field, proc, orphaned, stdinLog, served, stdout, hs, termSent>>
taskVars == <<pc, target, reqPos, ret, running, waited>>
closeVars == <<closedOnce, reclosed>>
botVars == <<botpc, initResult, opCount>>
syncVars == <<mcp_servers, firstClient, handled>>
srvVars == <<srvUp, srvIn, srvOut>>
anaVars == <<now, analysis_cache, issued, cwd, analysisCount, lastResult>>
ctxVars == <<context, max_context_length, added>>
msgVars == <<msgCount, last_message, consulted, executed, detected, tool_calls, results, response>>
fsVars == <<fs_files, fs_dirs, fs_touched, fs_result>>
chatVars == <<ctxVars, msgVars, fsVars>>
laterVars == <<anaVars, chatVars>>
otherVars == <<syncVars, srvVars, laterVars>>
bridgeVars == <<procVars, taskVars, closeVars, botVars>>
vars == <<bridgeVars, otherVars>>

\* the names initialize_mcp_servers registers, and the client objects it makes
ServerNames == {"filesystem", "git", "git_analyzer"}
ClientObjects == {"FilesystemMCPClient", "GitMCPClient", "GitAnalyzerMCPServer"}
NoClient == "absent"
NotHandled == [msg |-> <<>>, server |-> "none", op |-> "none"]

\* the mapping a start or a close hands back is not looked into
NoValue == <<>>

\* f"analysis_{datetime.now().strftime('%Y%m%d_%H%M%S')}": the time to the second
AnalysisId(t) == <<"analysis", t>>
AnalysisIds == {AnalysisId(t) : t \in 0..MaxClock}
NoData == [repo |-> "none", serial |-> 0]
NoResult == [tool |-> "none", success |-> FALSE]

\* the directory the server is started in, the repository paths a request
\* may name, and the directories that exist
StartDir == "/srv"
RepoPaths == {"/repo", "/missing"}
ExistingDirs == {"/srv", "/repo"}

NoRet ==
    [op |-> "none", h |-> "none", ok |-> FALSE, src |-> 0, req |-> 0, value |-> NoValue]

InitClients ==
    /\ spawnOk \in [Handles -> BOOLEAN]
    /\ process_field = [h \in Handles |-> FALSE]
    /\ proc = [h \in Handles |-> "none"]
    /\ orphaned = [h \in Handles |-> FALSE]
    /\ stdinLog = [h \in Handles |-> <<>>]
    /\ served = [h \in Handles |-> 0]
    /\ stdout = [h \in Handles |-> <<>>]
    /\ hs = [h \in Handles |-> "None"]
    /\ termSent = [h \in Handles |-> FALSE]
    /\ pc = [t \in Tasks |-> "idle"]
    /\ target = [t \in Tasks |-> "none"]
    /\ reqPos = [t \in Tasks |-> 0]
    /\ ret = NoRet
    /\ running = NoTask
    /\ opCount = 0
    /\ waited = 0
    /\ closedOnce = [c \in Clients |-> FALSE]
    /\ reclosed = [c \in Clients |-> FALSE]
    /\ initResult = "none"

\* the synchronous Chatbot before any registration
InitSync ==
    /\ mcp_servers = [n \in ServerNames |-> NoClient]
    /\ firstClient = [n \in ServerNames |-> NoClient]
    /\ handled = NotHandled

\* the git-analyzer server process at the top of main()
InitServer ==
    /\ srvUp = TRUE
    /\ srvIn = <<>>
    /\ srvOut = <<>>

\* GitAnalyzerServer.__init__, in the directory the server was started in
InitAnalyzer ==
    /\ now = 0
    /\ analysis_cache = [id \in AnalysisIds |-> NoData]
    /\ issued = [id \in AnalysisIds |-> NoData]
    /\ cwd = StartDir
    /\ analysisCount = 0
    /\ lastResult = NoResult

\* ContextManager.__init__(max_context_length)
InitContext(max) ==
    /\ context = <<>>
    /\ max_context_length = max
    /\ added = <<>>

\* the ContextManager() MCPChatbot.__init__ makes has the default length
DefaultMaxContextLength == 10

\* no message processed yet
InitMessages ==
    /\ msgCount = 0
    /\ last_message = <<>>
    /\ consulted = <<>>
    /\ executed = <<>>
    /\ detected = [action |-> "none", arg |-> <<>>, content |-> <<>>]
    /\ tool_calls = <<>>
    /\ results = <<>>
    /\ response = [from |-> "none", kind |-> "none"]

\* FilesystemMCPClient.__init__, on the filesystem as it was found
InitFilesystem ==
    /\ fs_files = {<<"/", "w", "/", "b", "/", "a">>, <<"/", "w", "/", "b", "2", "/", "a">>, <<"/", "e", "t", "c", "/", "p">>}
    /\ fs_dirs = {<<"/">>, <<"/", "w">>, <<"/", "w", "/", "b">>, <<"/", "w", "/", "b", "2">>, <<"/", "e", "t", "c">>}
    /\ fs_touched = {}
    /\ fs_result = [op |-> "none", path |-> <<>>, success |-> FALSE, error |-> ""]

InitChat ==
    /\ InitContext(DefaultMaxContextLength)
    /\ InitMessages
    /\ InitFilesystem

InitLater ==
    /\ InitAnalyzer
    /\ InitChat

\* the clients on their own, driven by arbitrary callers
Init ==
    /\ InitClients
    /\ botpc = "off"
    /\ InitSync
    /\ InitServer
    /\ InitLater


\* ------------------------------------------------------------ helpers
Ret(o, h, ok, src, req) ==
    [op |-> o, h |-> h, ok |-> ok, src |-> src, req |-> req, value |-> NoValue]

\* what a tool-call wrapper returns: the mapping (value) a _send_mcp_request
\* built, with the request it wrote (req) and the message its line answered (src)
CallRet(h, value, src, req) ==
    [op |-> "call", h |-> h, ok |-> value.success, src |-> src, req |-> req,
     value |-> value]

\* the three failure mappings of _send_mcp_request that come from no response
NotStartedError == [success |-> FALSE, error |-> "server not started"]
NoResponseError == [success |-> FALSE, error |-> "No response from server"]
ExceptionError == [success |-> FALSE, error |-> "str(e)"]

Msg(m, i) == [method |-> m, id |-> i]

\* a line the backend wrote: kind is "result", "error" or "garbage" (not JSON);
\* re is the position in stdinLog of the message it answers
Line(k, i, re) == [kind |-> k, id |-> i, re |-> re]

\* the members of a response line: a "result" line carries the result the
\* backend computed for message re, an "error" line the error object for it
HasError(line) == line.kind = "error"
ErrorOf(line) == <<"error", line.re>>
EmptyObject == <<>>
ResultOf(line) == IF line.kind = "result" THEN <<"result", line.re>> ELSE EmptyObject

\* _send_mcp_request after the readline: json.loads, `if "error" in response`,
\* `response.get("result", {})`; a line that is not a JSON object raises
NormalizeResponse_NoErrorCheck(line) ==
    IF line.kind = "garbage" THEN ExceptionError
    ELSE [success |-> TRUE, data |-> ResultOf(line)]
NormalizeResponse(line) ==
    IF line.kind = "garbage" THEN ExceptionError
    ELSE IF HasError(line) THEN [success |-> FALSE, error |-> ErrorOf(line)]
    ELSE [success |-> TRUE, data |-> ResultOf(line)]

\* `if "error" in response: return False` of _initialize_mcp_connection
HandshakeAccepted_NoErrorCheck(line) == line.kind # "garbage"
HandshakeAccepted(line) == line.kind # "garbage" /\ ~HasError(line)

\* the process a wrapper's request goes to: `self.filesystem_process if
\* server_type == "filesystem" else self.git_process`, every git_* wrapper
\* passing server_type="git"; GitAnalyzerClient has the one analyzer_process
SelectProcess_Default(h) == IF h = "git" THEN "filesystem" ELSE h
SelectProcess(h) == h

\* `if not process:` of _send_mcp_request
NotStarted_Unchecked(h) == FALSE
NotStarted(h) == ~process_field[h]

\* subprocess.Popen(...) of a start_* method: a fresh process behind the field
Popen(h) ==
    /\ process_field' = [process_field EXCEPT ![h] = TRUE]
    /\ orphaned' = [orphaned EXCEPT ![h] = @ \/ (process_field[h] /\ proc[h] = "running")]
    /\ proc' = [proc EXCEPT ![h] = "running"]
    /\ served' = [served EXCEPT ![h] = 0]
    /\ stdout' = [stdout EXCEPT ![h] = <<>>]
    /\ termSent' = [termSent EXCEPT ![h] = FALSE]
    /\ closedOnce' = [closedOnce EXCEPT ![ClientOf(h)] = FALSE]

\* the task the event loop belongs to after a task wrote a request and goes on
\* to process.stdout.readline(): readline is a plain blocking call, not an
\* awaited one, so the loop stays with the task
LoopAfterWrite_Awaited(t) == NoTask
LoopAfterWrite(t) == t

\* process.stdin.write(...); process.stdin.flush(): reaches the process only
\* while it runs (a closed pipe raises BrokenPipeError)
CanWrite(h) == proc[h] = "running"

\* process.stdout.readline() returns: a line is there, or the stream is closed
CanRead(h) == stdout[h] # <<>> \/ proc[h] # "running"

\* a task returns from an operation and gives the event loop back
Return(t, r) ==
    /\ pc' = [pc EXCEPT ![t] = "idle"]
    /\ target' = [target EXCEPT ![t] = "none"]
    /\ reqPos' = [reqPos EXCEPT ![t] = 0]
    /\ ret' = r
    /\ running' = NoTask
    /\ waited' = 0

\* a task begins an operation: it needs the event loop
Begin(t) ==
    /\ pc[t] = "idle"
    /\ running = NoTask

\* -------------------------------------------------- MCPClient, starts
\* start_filesystem_server / start_analyzer_server: Popen only, no handshake
start_server(t, h) ==
    /\ h \in {"filesystem", "analyzer"}
    /\ Begin(t)
    /\ IF spawnOk[h]
       THEN /\ Popen(h)
            /\ stdinLog' = [stdinLog EXCEPT ![h] = <<>>]
            /\ hs' = [hs EXCEPT ![h] = "Spawned"]
            /\ Return(t, Ret("start", h, TRUE, 0, 0))
       ELSE /\ Return(t, Ret("start", h, FALSE, 0, 0))
            /\ UNCHANGED <<process_field, orphaned, proc, served, stdout, termSent,
                           closedOnce, stdinLog, hs>>
    /\ UNCHANGED <<spawnOk, reclosed>>

\* start_git_server up to the readline of _initialize_mcp_connection:
\* Popen, then the initialize request is written
start_git_server(t) ==
    /\ Begin(t)
    /\ IF spawnOk["git"]
       THEN /\ Popen("git")
            /\ stdinLog' = [stdinLog EXCEPT !["git"] = <<Msg("initialize", InitRequestId)>>]
            /\ hs' = [hs EXCEPT !["git"] = "Initializing"]
            /\ pc' = [pc EXCEPT ![t] = "hs_reading"]
            /\ target' = [target EXCEPT ![t] = "git"]
            /\ running' = LoopAfterWrite(t)
            /\ UNCHANGED <<reqPos, ret, waited>>
       ELSE /\ Return(t, Ret("start", "git", FALSE, 0, 0))
            /\ UNCHANGED <<process_field, orphaned, proc, served, stdout, termSent,
                           closedOnce, stdinLog, hs>>
    /\ UNCHANGED <<spawnOk, reclosed>>

\* _initialize_mcp_connection from the readline on
initialize_mcp_connection(t) ==
    /\ pc[t] = "hs_reading"
    /\ LET h == target[t] IN
       /\ CanRead(h)
       /\ IF stdout[h] = <<>>
          THEN \* empty read: return False
               /\ hs' = [hs EXCEPT ![h] = "Failed"]
               /\ UNCHANGED <<stdout, stdinLog>>
          ELSE LET line == Head(stdout[h]) IN
               /\ stdout' = [stdout EXCEPT ![h] = Tail(@)]
               /\ IF HandshakeAccepted(line) /\ CanWrite(h)
                  THEN \* no error member: the notification is written
                       /\ stdinLog' = [stdinLog EXCEPT ![h] =
                              Append(@, Msg("notifications/initialized", NoId))]
                       /\ hs' = [hs EXCEPT ![h] = "Ready"]
                  ELSE \* error member, json.loads raised, or the write raised
                       /\ hs' = [hs EXCEPT ![h] = "Failed"]
                       /\ UNCHANGED stdinLog
       /\ Return(t, Ret("start", h, hs'[h] = "Ready", 0, 0))
    /\ UNCHANGED <<spawnOk, process_field, proc, orphaned, served, termSent, closeVars>>

\* ------------------------------------------- _send_mcp_request (both clients)
\* up to the readline: the field is checked, the request is written
send_mcp_request(t, h) ==
    /\ Begin(t)
    /\ LET p == SelectProcess(h) IN
       IF NotStarted(p)
       THEN \* "... server not started"
            /\ Return(t, CallRet(h, NotStartedError, 0, 0))
            /\ UNCHANGED stdinLog
       ELSE IF ~CanWrite(p)
       THEN \* write/flush raised: except branch
            /\ Return(t, CallRet(h, ExceptionError, 0, 0))
            /\ UNCHANGED stdinLog
       ELSE /\ stdinLog' = [stdinLog EXCEPT ![p] = Append(@, Msg("tools/call", RequestId(p)))]
            /\ pc' = [pc EXCEPT ![t] = "reading"]
            /\ target' = [target EXCEPT ![t] = h]
            /\ running' = LoopAfterWrite(t)
            /\ reqPos' = [reqPos EXCEPT ![t] = Len(stdinLog[p]) + 1]
            /\ UNCHANGED <<ret, waited>>
    /\ UNCHANGED <<spawnOk, process_field, proc, orphaned, served, stdout, hs, termSent,
                   closeVars>>

\* _send_mcp_request from the readline on
send_mcp_request_readline(t) ==
    /\ pc[t] = "reading"
    /\ LET h == target[t]
           p == SelectProcess(h)
           req == reqPos[t]
       IN
       /\ CanRead(p)
       /\ IF stdout[p] = <<>>
          THEN \* "No response from server"
               /\ Return(t, CallRet(h, NoResponseError, 0, req))
               /\ UNCHANGED stdout
          ELSE LET line == Head(stdout[p]) IN
               /\ stdout' = [stdout EXCEPT ![p] = Tail(@)]
               /\ Return(t, CallRet(h, NormalizeResponse(line),
                                    IF line.kind = "garbage" THEN 0 ELSE line.re, req))
    /\ UNCHANGED <<spawnOk, process_field, proc, orphaned, stdinLog, served, hs, termSent,
                   closeVars>>

\* ------------------------------------------------------------- close
NextInClose(h) == IF h = "filesystem" THEN "git" ELSE "none"

\* close() of MCPClient (c = "mcp") or GitAnalyzerClient: enters the try block
close(t, c) ==
    /\ Begin(t)
    /\ pc' = [pc EXCEPT ![t] = "close_term"]
    /\ target' = [target EXCEPT ![t] = CloseOrder(c)[1]]
    /\ running' = t
    /\ UNCHANGED <<reqPos, ret, waited, procVars, closeVars>>

\* close() leaves the block of field h: on to the next field, or return
close_next_field(t, h) ==
    IF NextInClose(h) = "none"
    THEN /\ Return(t, Ret("close", ClientOf(h), TRUE, 0, 0))
         /\ closedOnce' = [closedOnce EXCEPT ![ClientOf(h)] = TRUE]
    ELSE /\ pc' = [pc EXCEPT ![t] = "close_term"]
         /\ target' = [target EXCEPT ![t] = NextInClose(h)]
         /\ UNCHANGED <<reqPos, ret, running, waited, closedOnce>>

\* `if self.<h>_process:` and `.terminate()`; raised = os.kill raised (OSError)
close_terminate(t, raised) ==
    /\ pc[t] = "close_term"
    /\ LET h == target[t] IN
       IF ~process_field[h]
       THEN /\ raised = FALSE
            /\ close_next_field(t, h)
            /\ UNCHANGED <<termSent, reclosed>>
       ELSE /\ reclosed' = [reclosed EXCEPT ![ClientOf(h)] = @ \/ closedOnce[ClientOf(h)]]
            /\ IF proc[h] = "running" /\ raised
               THEN \* except Exception: logged, close returns
                    /\ Return(t, Ret("close", ClientOf(h), FALSE, 0, 0))
                    /\ closedOnce' = [closedOnce EXCEPT ![ClientOf(h)] = TRUE]
                    /\ UNCHANGED termSent
               ELSE /\ raised = FALSE
                    /\ termSent' = [termSent EXCEPT ![h] = @ \/ proc[h] = "running"]
                    /\ pc' = [pc EXCEPT ![t] = "close_wait"]
                    /\ UNCHANGED <<target, reqPos, ret, running, waited, closedOnce>>
    /\ UNCHANGED <<spawnOk, process_field, proc, orphaned, stdinLog, served, stdout, hs>>

\* `.wait()` returns once the process has exited; then the field is set to None
close_wait(t) ==
    /\ pc[t] = "close_wait"
    /\ LET h == target[t] IN
       /\ proc[h] # "running"
       /\ process_field' = [process_field EXCEPT ![h] = FALSE]
       /\ close_next_field(t, h)
    /\ UNCHANGED <<spawnOk, proc, orphaned, stdinLog, served, stdout, hs, termSent,
                   reclosed>>

\* ------------------------------------------------------- environment
\* what a backend may write for a message: a request is answered with a
\* result, an error or a line that is not JSON, or not at all; a notification
\* is ignored, or answered with an error carrying no id (as the repository's
\* own analyzer server does for every method it does not know)
ReplyKinds == {"silent", "result", "error", "garbage"}

Replies(m) ==
    IF m.id = NoId THEN {"silent", "error"}
    ELSE {"silent", "result", "error", "garbage"}

BackendServe(h, k) ==
    /\ proc[h] = "running"
    /\ served[h] < Len(stdinLog[h])
    /\ LET i == served[h] + 1
           m == stdinLog[h][i]
       IN /\ k \in Replies(m)
          /\ served' = [served EXCEPT ![h] = i]
          /\ stdout' = [stdout EXCEPT ![h] =
                 IF k = "silent" THEN @ ELSE Append(@, Line(k, m.id, i))]
    /\ UNCHANGED <<spawnOk, process_field, proc, orphaned, stdinLog, hs, termSent,
                   taskVars, closeVars>>

\* the child process exits (on SIGTERM, on its own, or by crashing)
ProcExit(h) ==
    /\ proc[h] = "running"
    /\ proc' = [proc EXCEPT ![h] = "exited"]
    /\ UNCHANGED <<spawnOk, process_field, orphaned, stdinLog, served, stdout, hs, termSent,
                   taskVars, closeVars>>

\* task t sits in a blocking call that cannot return yet
Blocked(t) ==
    \/ pc[t] = "reading" /\ ~CanRead(SelectProcess(target[t]))
    \/ pc[t] = "hs_reading" /\ ~CanRead(target[t])
    \/ pc[t] = "close_wait" /\ proc[target[t]] = "running"

\* time passes while a task is blocked
Tick ==
    /\ \E t \in Tasks : Blocked(t)
    /\ waited < MaxWait
    /\ waited' = waited + 1
    /\ UNCHANGED <<procVars, pc, target, reqPos, ret, running, closeVars>>

\* ------------------------------------------- the clients driven by any caller
Start(t, h) == IF h = "git" THEN start_git_server(t) ELSE start_server(t, h)

\* the callers of this run begin at most MaxOps operations
Budget ==
    /\ opCount < MaxOps
    /\ opCount' = opCount + 1
    /\ UNCHANGED <<botpc, initResult, otherVars>>

Next ==
    \/ (\E t \in Tasks, h \in Handles : Start(t, h)) /\ Budget
    \/ (\E t \in Tasks, h \in Handles : send_mcp_request(t, h)) /\ Budget
    \/ (\E t \in Tasks, c \in Clients : close(t, c)) /\ Budget
    \/ (\E t \in Tasks : initialize_mcp_connection(t)) /\ UNCHANGED <<botVars, otherVars>>
    \/ (\E t \in Tasks : send_mcp_request_readline(t)) /\ UNCHANGED <<botVars, otherVars>>
    \/ (\E t \in Tasks, raised \in BOOLEAN : close_terminate(t, raised)) /\ UNCHANGED <<botVars, otherVars>>
    \/ (\E t \in Tasks : close_wait(t)) /\ UNCHANGED <<botVars, otherVars>>
    \/ (\E h \in Handles, k \in ReplyKinds : BackendServe(h, k)) /\ UNCHANGED <<botVars, otherVars>>
    \/ (\E h \in Handles : ProcExit(h)) /\ UNCHANGED <<botVars, otherVars>>
    \/ Tick /\ UNCHANGED <<botVars, otherVars>>

Spec == Init /\ [][Next]_vars

\* ------------------------------------------------------------ MCPChatbot
\* initialize() returns False, and run_interactive returns at once
InitializeFailed ==
    /\ initResult' = "failed"
    /\ botpc' = "returned"

\* initialize(): fs_success = await self.mcp_client.start_filesystem_server()
initialize_filesystem ==
    /\ botpc = "start_fs"
    /\ start_server(BotTask, "filesystem")
    /\ IF ret'.ok
       THEN botpc' = "start_git" /\ UNCHANGED initResult
       ELSE InitializeFailed
    /\ UNCHANGED <<opCount, otherVars>>

\* initialize(): git_success = await self.mcp_client.start_git_server()
initialize_git ==
    /\ botpc = "start_git"
    /\ start_git_server(BotTask)
    /\ botpc' = "git_wait"
    /\ UNCHANGED <<initResult, opCount, otherVars>>

\* initialize(): start_git_server has returned
initialize_git_done ==
    /\ botpc = "git_wait"
    /\ pc[BotTask] = "idle"
    /\ IF ret.ok
       THEN botpc' = "start_analyzer" /\ UNCHANGED initResult
       ELSE InitializeFailed
    /\ UNCHANGED <<procVars, taskVars, closeVars, opCount, otherVars>>

\* initialize(): analyzer_success = await ...start_analyzer_server()
initialize_analyzer ==
    /\ botpc = "start_analyzer"
    /\ start_server(BotTask, "analyzer")
    /\ IF ret'.ok
       THEN botpc' = "health" /\ UNCHANGED initResult
       ELSE InitializeFailed
    /\ UNCHANGED <<opCount, otherVars>>

\* initialize(): weather_health = await self.weather_client.health_check()
initialize_weather(healthy) ==
    /\ botpc = "health"
    /\ IF healthy
       THEN botpc' = "loop" /\ initResult' = "ok"
       ELSE InitializeFailed
    /\ UNCHANGED <<procVars, taskVars, closeVars, opCount, otherVars>>

\* the loop of run_interactive: one message that an executor turns into a
\* wrapper call on backend h
process_message(h) ==
    /\ botpc = "loop"
    /\ opCount < MaxOps
    /\ opCount' = opCount + 1
    /\ send_mcp_request(BotTask, h)
    /\ UNCHANGED <<botpc, initResult, otherVars>>

\* ---------------------------------------------------- WeatherRemoteClient
\* what the POST to /mcp can come to: the request fails or the status is an
\* error one (raise_for_status raises), the body is not JSON, or the weather
\* server's mcp_endpoint answered: without its API key, or with what
\* get_weather / get_forecast / get_weather_alerts returned
WeatherBehaviours == {"http_error", "not_json", "no_api_key", "tool_ok", "tool_failed"}

\* the JSON body mcp_endpoint returns
mcp_endpoint(b) ==
    IF b = "no_api_key" THEN [error |-> "OPENWEATHER_API_KEY not configured"]
    ELSE IF b = "tool_ok" THEN [success |-> TRUE, city |-> "Madrid", temperature |-> 20]
    ELSE [success |-> FALSE, error |-> "Error obteniendo clima"]

\* WeatherRemoteClient._send_mcp_request: `return result` is the body as it
\* came; only an exception is turned into {"success": False, "error": str(e)}
weather_send_mcp_request(b) ==
    IF b \in {"http_error", "not_json"} THEN ExceptionError ELSE mcp_endpoint(b)

\* the loop of run_interactive: one message the weather executor turns into a
\* wrapper call of the weather client; the executor reads
\* result.get("success", False)
process_message_weather(b) ==
    /\ botpc = "loop"
    /\ pc[BotTask] = "idle"
    /\ opCount < MaxOps
    /\ opCount' = opCount + 1
    /\ LET value == weather_send_mcp_request(b) IN
       ret' = [op |-> "call", h |-> "weather",
               ok |-> IF "success" \in DOMAIN value THEN value.success ELSE FALSE,
               src |-> 0, req |-> 0, value |-> value]
    /\ UNCHANGED <<procVars, pc, target, reqPos, running, waited, closeVars,
                   botpc, initResult, otherVars>>

\* the loop ends (quit, KeyboardInterrupt, an exception): the finally block
\* begins with await self.mcp_client.close()
LoopEnds == {"quit", "KeyboardInterrupt", "exception"}

\* the clean-up is a finally block: it runs however the loop ended
RunsCleanup_OnQuitOnly(how) == how = "quit"
RunsCleanup(how) == TRUE

run_interactive_finally(how) ==
    /\ botpc = "loop"
    /\ IF RunsCleanup(how)
       THEN /\ close(BotTask, "mcp")
            /\ botpc' = "closing_mcp"
       ELSE /\ pc[BotTask] = "idle"
            /\ botpc' = "returned"
            /\ UNCHANGED <<procVars, taskVars, closeVars>>
    /\ UNCHANGED <<initResult, opCount, otherVars>>

\* finally: await self.git_analyzer_client.close()
run_interactive_close_analyzer ==
    /\ botpc = "closing_mcp"
    /\ close(BotTask, "analyzer_client")
    /\ botpc' = "closing_analyzer"
    /\ UNCHANGED <<initResult, opCount, otherVars>>

\* finally: await self.weather_client.close(); run_interactive returns
run_interactive_close_weather ==
    /\ botpc = "closing_analyzer"
    /\ pc[BotTask] = "idle"
    /\ botpc' = "returned"
    /\ UNCHANGED <<procVars, taskVars, closeVars, initResult, opCount, otherVars>>

ChatInit ==
    /\ InitClients
    /\ botpc = "start_fs"
    /\ InitSync
    /\ InitServer
    /\ InitLater

ChatNext ==
    \/ initialize_filesystem
    \/ initialize_git
    \/ initialize_git_done
    \/ initialize_analyzer
    \/ \E healthy \in BOOLEAN : initialize_weather(healthy)
    \/ \E h \in Handles : process_message(h)
    \/ \E b \in WeatherBehaviours : process_message_weather(b)
    \/ \E how \in LoopEnds : run_interactive_finally(how)
    \/ run_interactive_close_analyzer
    \/ run_interactive_close_weather
    \/ initialize_mcp_connection(BotTask) /\ UNCHANGED <<botVars, otherVars>>
    \/ send_mcp_request_readline(BotTask) /\ UNCHANGED <<botVars, otherVars>>
    \/ (\E raised \in BOOLEAN : close_terminate(BotTask, raised)) /\ UNCHANGED <<botVars, otherVars>>
    \/ close_wait(BotTask) /\ UNCHANGED <<botVars, otherVars>>
    \/ (\E h \in Handles, k \in ReplyKinds : BackendServe(h, k)) /\ UNCHANGED <<botVars, otherVars>>
    \/ (\E h \in Handles : ProcExit(h)) /\ UNCHANGED <<botVars, otherVars>>
    \/ Tick /\ UNCHANGED <<botVars, otherVars>>

ChatSpec == ChatInit /\ [][ChatNext]_vars

\* ======================================================= the synchronous Chatbot
\* a message is the sequence of its characters
\* str.lower(), on the letters
LowerMap ==
    "A" :> "a" @@ "B" :> "b" @@ "C" :> "c" @@ "D" :> "d" @@ "E" :> "e" @@ "F" :> "f" @@ "G" :> "g" @@
    "H" :> "h" @@ "I" :> "i" @@ "J" :> "j" @@ "K" :> "k" @@ "L" :> "l" @@ "M" :> "m" @@ "N" :> "n" @@
    "O" :> "o" @@ "P" :> "p" @@ "Q" :> "q" @@ "R" :> "r" @@ "S" :> "s" @@ "T" :> "t" @@ "U" :> "u" @@
    "V" :> "v" @@ "W" :> "w" @@ "X" :> "x" @@ "Y" :> "y" @@ "Z" :> "z"

Lower(str) == [i \in 1..Len(str) |-> IF str[i] \in DOMAIN LowerMap THEN LowerMap[str[i]] ELSE str[i]]

\* `keyword in user_lower`: keyword is a substring
Contains(str, keyword) ==
    \E i \in 1..(Len(str) - Len(keyword) + 1) :
        SubSeq(str, i, i + Len(keyword) - 1) = keyword

\* any(keyword in user_lower for keyword in [...])
AnyKeyword(keywords, str) == \E keyword \in keywords : Contains(str, keyword)

\* len(user_input.split()): the number of whitespace-separated words
WordCount(str) ==
    Cardinality({i \in 1..Len(str) : str[i] # " " /\ (i = 1 \/ str[i - 1] = " ")})

\* len(user_input.split('"')): one more than the number of quote characters
QuoteParts(str) == Cardinality({i \in 1..Len(str) : str[i] = "\""}) + 1

\* 'create file', 'read file', 'list files', 'delete file'
FilesystemKeywords ==
    {<<"c", "r", "e", "a", "t", "e", " ", "f", "i", "l", "e">>,
     <<"r", "e", "a", "d", " ", "f", "i", "l", "e">>,
     <<"l", "i", "s", "t", " ", "f", "i", "l", "e", "s">>,
     <<"d", "e", "l", "e", "t", "e", " ", "f", "i", "l", "e">>}

\* 'git', 'commit', 'repository', 'repo'
GitKeywords ==
    {<<"g", "i", "t">>,
     <<"c", "o", "m", "m", "i", "t">>,
     <<"r", "e", "p", "o", "s", "i", "t", "o", "r", "y">>,
     <<"r", "e", "p", "o">>}

\* 'analyze', 'stats', 'statistics', 'metrics'
GitAnalyzerKeywords ==
    {<<"a", "n", "a", "l", "y", "z", "e">>,
     <<"s", "t", "a", "t", "s">>,
     <<"s", "t", "a", "t", "i", "s", "t", "i", "c", "s">>,
     <<"m", "e", "t", "r", "i", "c", "s">>}

\* the client method _handle_filesystem_request ends in, or the text it
\* answers without calling the client
handle_filesystem_request(user_input) ==
    LET user_lower == Lower(user_input) IN
    IF Contains(user_lower, <<"r", "e", "a", "d", " ", "f", "i", "l", "e">>)
    THEN IF WordCount(user_input) >= 3 THEN "read_file" ELSE "usage"
    ELSE IF Contains(user_lower, <<"l", "i", "s", "t", " ", "f", "i", "l", "e", "s">>) \/ Contains(user_lower, <<"l", "i", "s", "t", " ", "d", "i", "r", "e", "c", "t", "o", "r", "y">>)
    THEN "list_directory"
    ELSE IF Contains(user_lower, <<"c", "r", "e", "a", "t", "e", " ", "f", "i", "l", "e">>)
    THEN IF WordCount(user_input) >= 3 THEN "write_file" ELSE "usage"
    ELSE "help"

handle_git_request(user_input) ==
    LET user_lower == Lower(user_input) IN
    IF Contains(user_lower, <<"i", "n", "i", "t", " ", "r", "e", "p", "o", "s", "i", "t", "o", "r", "y">>) \/ Contains(user_lower, <<"i", "n", "i", "t", " ", "r", "e", "p", "o">>)
    THEN "init_repository"
    ELSE IF Contains(user_lower, <<"a", "d", "d", " ", "f", "i", "l", "e">>)
    THEN IF WordCount(user_input) >= 3 THEN "add_file" ELSE "usage"
    ELSE IF Contains(user_lower, <<"c", "o", "m", "m", "i", "t">>)
    THEN IF QuoteParts(user_input) >= 2 THEN "commit" ELSE "usage"
    ELSE IF Contains(user_lower, <<"g", "i", "t", " ", "s", "t", "a", "t", "u", "s">>)
    THEN "get_status"
    ELSE "help"

handle_git_analyzer_request(user_input) ==
    LET user_lower == Lower(user_input) IN
    IF Contains(user_lower, <<"a", "n", "a", "l", "y", "z", "e", " ", "r", "e", "p", "o", "s", "i", "t", "o", "r", "y">>) \/ Contains(user_lower, <<"r", "e", "p", "o", " ", "i", "n", "f", "o">>)
    THEN "get_repo_info"
    ELSE IF Contains(user_lower, <<"c", "o", "m", "m", "i", "t", " ", "s", "t", "a", "t", "s">>) \/ Contains(user_lower, <<"c", "o", "m", "m", "i", "t", " ", "s", "t", "a", "t", "i", "s", "t", "i", "c", "s">>)
    THEN "get_commit_stats"
    ELSE IF Contains(user_lower, <<"f", "i", "l", "e", " ", "s", "t", "a", "t", "s">>) \/ Contains(user_lower, <<"f", "i", "l", "e", " ", "s", "t", "a", "t", "i", "s", "t", "i", "c", "s">>)
    THEN "get_file_stats"
    ELSE IF Contains(user_lower, <<"g", "e", "n", "e", "r", "a", "t", "e", " ", "r", "e", "p", "o", "r", "t">>)
    THEN "generate_report"
    ELSE "help"

\* _check_mcp_usage: the three keyword tests in the order of the code, each
\* returning only when its server is registered; None (server "none") sends the
\* message on to the Anthropic API
check_mcp_usage(user_input) ==
    LET user_lower == Lower(user_input) IN
    IF AnyKeyword(FilesystemKeywords, user_lower) /\ mcp_servers["filesystem"] # NoClient
    THEN [msg |-> user_input, server |-> "filesystem",
          op |-> handle_filesystem_request(user_input)]
    ELSE IF AnyKeyword(GitKeywords, user_lower) /\ mcp_servers["git"] # NoClient
    THEN [msg |-> user_input, server |-> "git", op |-> handle_git_request(user_input)]
    ELSE IF AnyKeyword(GitAnalyzerKeywords, user_lower) /\ mcp_servers["git_analyzer"] # NoClient
    THEN [msg |-> user_input, server |-> "git_analyzer",
          op |-> handle_git_analyzer_request(user_input)]
    ELSE [msg |-> user_input, server |-> "none", op |-> "none"]

\* the commands run_demo sends, each with the server initialize_mcp_servers
\* advertises it for
DemoCommands ==
    {[text |-> <<"i", "n", "i", "t", " ", "r", "e", "p", "o", "s", "i", "t", "o", "r", "y">>,
      server |-> "git"],
     [text |-> <<"c", "r", "e", "a", "t", "e", " ", "f", "i", "l", "e", " ", "R", "E", "A", "D", "M", "E", ".", "m", "d", " ", "\"", "#", " ", "D", "e", "m", "o", "\"">>,
      server |-> "filesystem"],
     [text |-> <<"l", "i", "s", "t", " ", "f", "i", "l", "e", "s">>,
      server |-> "filesystem"],
     [text |-> <<"a", "d", "d", " ", "f", "i", "l", "e", " ", "R", "E", "A", "D", "M", "E", ".", "m", "d">>,
      server |-> "git"],
     [text |-> <<"g", "i", "t", " ", "s", "t", "a", "t", "u", "s">>,
      server |-> "git"],
     [text |-> <<"c", "o", "m", "m", "i", "t", " ", "\"", "I", "n", "i", "t", "i", "a", "l", " ", "c", "o", "m", "m", "i", "t", "\"">>,
      server |-> "git"],
     [text |-> <<"a", "n", "a", "l", "y", "z", "e", " ", "r", "e", "p", "o", "s", "i", "t", "o", "r", "y">>,
      server |-> "git_analyzer"],
     [text |-> <<"c", "o", "m", "m", "i", "t", " ", "s", "t", "a", "t", "s">>,
      server |-> "git_analyzer"],
     [text |-> <<"f", "i", "l", "e", " ", "s", "t", "a", "t", "s">>,
      server |-> "git_analyzer"],
     [text |-> <<"g", "e", "n", "e", "r", "a", "t", "e", " ", "r", "e", "p", "o", "r", "t">>,
      server |-> "git_analyzer"],
     [text |-> <<"r", "e", "a", "d", " ", "f", "i", "l", "e", " ", "R", "E", "A", "D", "M", "E", ".", "m", "d">>,
      server |-> "filesystem"]}

\* a message that is no command
Greeting == <<"h", "e", "l", "l", "o">>

Messages == {d.text : d \in DemoCommands} \cup {Greeting}

\* Chatbot.add_mcp_server
add_mcp_server(name, server_client) ==
    /\ mcp_servers' = [mcp_servers EXCEPT ![name] = server_client]
    /\ firstClient' = [firstClient EXCEPT ![name] = IF @ = NoClient THEN server_client ELSE @]
    /\ UNCHANGED <<handled, bridgeVars, srvVars, laterVars>>

\* Chatbot.process_message, as far as _check_mcp_usage
chatbot_process_message(user_input) ==
    /\ handled' = check_mcp_usage(user_input)
    /\ UNCHANGED <<mcp_servers, firstClient, bridgeVars, srvVars, laterVars>>

\* the bridge is not running in these two specifications
BridgeOff ==
    /\ InitClients
    /\ spawnOk = [h \in Handles |-> TRUE]
    /\ botpc = "off"

SyncInit ==
    /\ BridgeOff
    /\ InitSync
    /\ InitServer
    /\ InitLater

SyncNext ==
    \/ \E name \in ServerNames, server_client \in ClientObjects : add_mcp_server(name, server_client)
    \/ \E user_input \in Messages : chatbot_process_message(user_input)

SyncSpec == SyncInit /\ [][SyncNext]_vars

\* ===================================================== the git-analyzer server
\* a line on the server's stdin: text that is not JSON ("invalid"), JSON that
\* is not an object ("array"), or a message object with its id (NoId: no id
\* member), its method and, for tools/call, the tool name of its params
RequestLines ==
    {[json |-> j, id |-> NoId, method |-> "none", tool |-> "none"] : j \in {"invalid", "array"}}
    \cup
    {[json |-> "object", id |-> i, method |-> m, tool |-> "none"] :
        i \in {NoId, 1, 2}, m \in {"initialize", "notifications/initialized"}}
    \cup
    {[json |-> "object", id |-> i, method |-> "tools/call", tool |-> n] :
        i \in {NoId, 1, 2}, n \in {"analyze_repository", "no_such_tool"}}

\* the tool names handle_request knows
ToolNames ==
    {"analyze_repository", "get_code_metrics", "detect_smells", "analyze_contributors",
     "get_hotspots", "generate_report"}

\* MCPServer.handle_request on a message object: the response it returns,
\* "id": request.get("id") in every branch; raised = the tool method raised
handle_request_NullIdOnError(request, raised) ==
    IF request.method = "tools/call"
    THEN IF request.tool \in ToolNames
         THEN IF raised
              THEN [id |-> NoId, kind |-> "error", code |-> -32603]
              ELSE [id |-> request.id, kind |-> "result", code |-> 0]
         ELSE [id |-> NoId, kind |-> "error", code |-> -32601]
    ELSE [id |-> NoId, kind |-> "error", code |-> -32601]
handle_request(request, raised) ==
    IF request.method = "tools/call"
    THEN IF request.tool \in ToolNames
         THEN IF raised
              THEN [id |-> request.id, kind |-> "error", code |-> -32603]
              ELSE [id |-> request.id, kind |-> "result", code |-> 0]
         ELSE [id |-> request.id, kind |-> "error", code |-> -32601]
    ELSE [id |-> request.id, kind |-> "error", code |-> -32601]

\* one turn of the loop of main(): readline, json.loads, handle_request,
\* print. json.loads raising, or handle_request raising out of its own except
\* branch on a request that has no .get, ends the loop
main(raised) ==
    /\ srvUp
    /\ srvIn # <<>>
    /\ LET line == Head(srvIn) IN
       /\ srvIn' = Tail(srvIn)
       /\ raised => (line.json = "object" /\ line.method = "tools/call"
                        /\ line.tool \in ToolNames)
       /\ IF line.json = "object"
          THEN /\ srvOut' = Append(srvOut, handle_request(line, raised))
               /\ UNCHANGED srvUp
          ELSE /\ srvUp' = FALSE
               /\ UNCHANGED srvOut
    /\ UNCHANGED <<bridgeVars, syncVars, laterVars>>

\* a client writes a line to the server's stdin
client_write(line) ==
    /\ srvUp
    /\ Len(srvIn) + Len(srvOut) < MaxLines
    /\ srvIn' = Append(srvIn, line)
    /\ UNCHANGED <<srvUp, srvOut, bridgeVars, syncVars, laterVars>>

ServerInit ==
    /\ BridgeOff
    /\ InitSync
    /\ InitServer
    /\ InitLater

ServerNext ==
    \/ \E line \in RequestLines : client_write(line)
    \/ \E raised \in BOOLEAN : main(raised)

ServerSpec == ServerInit /\ [][ServerNext]_vars

\* ============================================== GitAnalyzerServer, the tools
\* the working directory after analyze_repository got past os.chdir(repo_path):
\* the inner try has a finally that goes back, whether or not a sub-analysis
\* raised
DirAfterAnalysis_NoFinally(original_dir, repo_path, raised) ==
    IF raised THEN repo_path ELSE original_dir
DirAfterAnalysis(original_dir, repo_path, raised) == original_dir

\* GitAnalyzerServer.analyze_repository; raised = a sub-analysis raised
analyze_repository(repo_path, raised) ==
    /\ analysisCount < MaxAnalyses
    /\ analysisCount' = analysisCount + 1
    /\ LET original_dir == cwd IN
       IF repo_path \notin ExistingDirs
       THEN \* os.chdir raises before the inner try: the outer except returns
            /\ raised = FALSE
            /\ lastResult' = [tool |-> "analyze_repository", success |-> FALSE,
                              error |-> "chdir"]
            /\ UNCHANGED <<cwd, analysis_cache, issued>>
       ELSE /\ cwd' = DirAfterAnalysis(original_dir, repo_path, raised)
            /\ IF raised
               THEN /\ lastResult' = [tool |-> "analyze_repository", success |-> FALSE,
                                      error |-> "raised"]
                    /\ UNCHANGED <<analysis_cache, issued>>
               ELSE LET analysis_id == AnalysisId(now)
                        analysis_result == [repo |-> repo_path, serial |-> analysisCount + 1]
                    IN /\ analysis_cache' = [analysis_cache EXCEPT ![analysis_id] = analysis_result]
                       /\ issued' = [issued EXCEPT ![analysis_id] =
                                        IF @ = NoData THEN analysis_result ELSE @]
                       /\ lastResult' = [tool |-> "analyze_repository", success |-> TRUE,
                                         analysis_id |-> analysis_id, data |-> analysis_result]
    /\ UNCHANGED <<now, bridgeVars, syncVars, srvVars, chatVars>>

\* GitAnalyzerServer.generate_report
generate_report(analysis_id) ==
    /\ lastResult' =
          IF analysis_cache[analysis_id] = NoData
          THEN [tool |-> "generate_report", success |-> FALSE, error |-> "Analysis ID not found"]
          ELSE [tool |-> "generate_report", success |-> TRUE, analysis_id |-> analysis_id,
                data |-> analysis_cache[analysis_id]]
    /\ UNCHANGED <<now, analysis_cache, issued, cwd, analysisCount, bridgeVars, syncVars, srvVars, chatVars>>

\* the tools that neither read nor write the cache
OtherTools == {"get_code_metrics", "detect_smells", "analyze_contributors", "get_hotspots"}

other_tool(name, ok) ==
    /\ lastResult' = [tool |-> name, success |-> ok]
    /\ UNCHANGED <<now, analysis_cache, issued, cwd, analysisCount, bridgeVars, syncVars, srvVars, chatVars>>

\* a second passes on the server's clock
clock_second ==
    /\ now < MaxClock
    /\ now' = now + 1
    /\ UNCHANGED <<analysis_cache, issued, cwd, analysisCount, lastResult,
                   bridgeVars, syncVars, srvVars, chatVars>>

AnalyzerInit ==
    /\ BridgeOff
    /\ InitSync
    /\ InitServer
    /\ InitLater

AnalyzerNext ==
    \/ \E repo_path \in RepoPaths, raised \in BOOLEAN : analyze_repository(repo_path, raised)
    \/ \E analysis_id \in AnalysisIds : generate_report(analysis_id)
    \/ \E name \in OtherTools, ok \in BOOLEAN : other_tool(name, ok)
    \/ clock_second

AnalyzerSpec == AnalyzerInit /\ [][AnalyzerNext]_vars

\* ============================================================ ContextManager
Roles == {"user", "assistant"}
Contents == {"a", "b"}

\* lst[-k:] of Python for k >= 0: the last k elements, and, -0 being 0, the
\* whole list for k = 0
LastSlice(lst, k) ==
    IF k = 0 THEN lst
    ELSE SubSeq(lst, (IF Len(lst) > k THEN Len(lst) - k ELSE 0) + 1, Len(lst))

\* the list ContextManager.add_message leaves in self.context
AddMessage(ctx, max, role, content) ==
    LET appended == Append(ctx, [role |-> role, content |-> content]) IN
    IF Len(appended) > max * 2 THEN LastSlice(appended, max * 2) ELSE appended

\* ContextManager.add_message
add_message(role, content) ==
    /\ Len(added) < MaxAdded
    /\ context' = AddMessage(context, max_context_length, role, content)
    /\ added' = Append(added, [role |-> role, content |-> content])
    /\ UNCHANGED <<max_context_length, msgVars, fsVars, bridgeVars, syncVars, srvVars, anaVars>>

\* ContextManager.add_interaction: two add_message calls
add_interaction(user_message, ai_response) ==
    /\ Len(added) + 2 <= MaxAdded
    /\ context' = AddMessage(AddMessage(context, max_context_length, "user", user_message),
                             max_context_length, "assistant", ai_response)
    /\ added' = added \o <<[role |-> "user", content |-> user_message],
                            [role |-> "assistant", content |-> ai_response]>>
    /\ UNCHANGED <<max_context_length, msgVars, fsVars, bridgeVars, syncVars, srvVars, anaVars>>

\* ContextManager.clear_context
clear_context ==
    /\ context' = <<>>
    /\ added' = <<>>
    /\ UNCHANGED <<max_context_length, msgVars, fsVars, bridgeVars, syncVars, srvVars, anaVars>>

ContextInit ==
    /\ BridgeOff
    /\ InitSync
    /\ InitServer
    /\ InitAnalyzer
    /\ \E max \in 0..MaxContext : InitContext(max)
    /\ InitMessages
    /\ InitFilesystem

ContextNext ==
    \/ \E role \in Roles, content \in Contents : add_message(role, content)
    \/ \E user_message \in Contents, ai_response \in Contents :
          add_interaction(user_message, ai_response)
    \/ clear_context

ContextSpec == ContextInit /\ [][ContextNext]_vars

\* ==================================================== MCPChatbot.process_message
\* message[n:] of Python, n counted from 0
From(str, n) == SubSeq(str, n + 1, Len(str))

\* str.startswith(prefix)
StartsWith(str, prefix) ==
    Len(prefix) <= Len(str) /\ SubSeq(str, 1, Len(prefix)) = prefix

\* str.strip(), on spaces
Strip(str) ==
    LET inked == {i \in 1..Len(str) : str[i] # " "} IN
    IF inked = {} THEN <<>>
    ELSE SubSeq(str, CHOOSE i \in inked : \A j \in inked : i <= j,
                     CHOOSE i \in inked : \A j \in inked : j <= i)

\* the position of the first space of str, or Len(str) + 1
FirstSpace(str) ==
    LET spaces == {i \in 1..Len(str) : str[i] = " "} IN
    IF spaces = {} THEN Len(str) + 1 ELSE CHOOSE i \in spaces : \A j \in spaces : i <= j

\* str.split()[0] of a stripped str
FirstWord(str) == SubSeq(str, 1, FirstSpace(str) - 1)

\* str.split(" ", 1)[1] of a stripped str that has a space
AfterFirstSpace(str) == SubSeq(str, FirstSpace(str) + 1, Len(str))

\* the text of a path, a repository or an id spelled by characters
RECURSIVE Text(_)
Text(str) == IF str = <<>> THEN "" ELSE Head(str) \o Text(Tail(str))

\* an intent: its action and its arguments; arg is the path, the repository,
\* the city, the files, the commit message or the analysis id
Intent(action, arg, content) == [action |-> action, arg |-> arg, content |-> content]
NoIntent == Intent("none", <<>>, <<>>)
Dot == <<".">>
HelloFromMCP == <<"H", "e", "l", "l", "o", " ", "f", "r", "o", "m", " ", "M", "C", "P", "!">>

\* the fixed commands of the four detectors, in the order of their elif
\* chains: exact = compared with ==, otherwise with startswith; cut = the n of
\* message[n:]; mode = how the argument is taken from message[n:].strip()
WeatherCommands ==
   <<
      [text |-> <<"w", "e", "a", "t", "h", "e", "r", " ", "i", "n", " ">>,
       exact |-> FALSE, action |-> "weather", cut |-> 11, mode |-> "rest"],
      [text |-> <<"c", "l", "i", "m", "a", " ", "e", "n", " ">>,
       exact |-> FALSE, action |-> "weather", cut |-> 9, mode |-> "rest"],
      [text |-> <<"f", "o", "r", "e", "c", "a", "s", "t", " ", "i", "n", " ">>,
       exact |-> FALSE, action |-> "forecast", cut |-> 12, mode |-> "rest"],
      [text |-> <<"p", "r", "o", "n", "ó", "s", "t", "i", "c", "o", " ", "e", "n", " ">>,
       exact |-> FALSE, action |-> "forecast", cut |-> 14, mode |-> "rest"],
      [text |-> <<"w", "e", "a", "t", "h", "e", "r", " ", "a", "l", "e", "r", "t", "s", " ", "i", "n", " ">>,
       exact |-> FALSE, action |-> "alerts", cut |-> 18, mode |-> "rest"],
      [text |-> <<"a", "l", "e", "r", "t", "a", "s", " ", "e", "n", " ">>,
       exact |-> FALSE, action |-> "alerts", cut |-> 11, mode |-> "rest"]
   >>

GitAnalyzerCommands ==
   <<
      [text |-> <<"a", "n", "a", "l", "y", "z", "e", " ", "r", "e", "p", "o", "s", "i", "t", "o", "r", "y">>,
       exact |-> TRUE, action |-> "analyze_repository", cut |-> 0, mode |-> "none"],
      [text |-> <<"a", "n", "a", "l", "y", "z", "e", " ", "r", "e", "p", "o", "s", "i", "t", "o", "r", "y", " ">>,
       exact |-> FALSE, action |-> "analyze_repository", cut |-> 18, mode |-> "word"],
      [text |-> <<"g", "e", "t", " ", "c", "o", "d", "e", " ", "m", "e", "t", "r", "i", "c", "s", " ">>,
       exact |-> FALSE, action |-> "get_code_metrics", cut |-> 17, mode |-> "rest"],
      [text |-> <<"d", "e", "t", "e", "c", "t", " ", "s", "m", "e", "l", "l", "s">>,
       exact |-> TRUE, action |-> "detect_smells", cut |-> 0, mode |-> "none"],
      [text |-> <<"d", "e", "t", "e", "c", "t", " ", "s", "m", "e", "l", "l", "s", " ">>,
       exact |-> FALSE, action |-> "detect_smells", cut |-> 14, mode |-> "word"],
      [text |-> <<"a", "n", "a", "l", "y", "z", "e", " ", "c", "o", "n", "t", "r", "i", "b", "u", "t", "o", "r", "s">>,
       exact |-> TRUE, action |-> "analyze_contributors", cut |-> 0, mode |-> "none"],
      [text |-> <<"a", "n", "a", "l", "y", "z", "e", " ", "c", "o", "n", "t", "r", "i", "b", "u", "t", "o", "r", "s", " ">>,
       exact |-> FALSE, action |-> "analyze_contributors", cut |-> 20, mode |-> "word"],
      [text |-> <<"g", "e", "t", " ", "h", "o", "t", "s", "p", "o", "t", "s">>,
       exact |-> TRUE, action |-> "get_hotspots", cut |-> 0, mode |-> "none"],
      [text |-> <<"g", "e", "t", " ", "h", "o", "t", "s", "p", "o", "t", "s", " ">>,
       exact |-> FALSE, action |-> "get_hotspots", cut |-> 12, mode |-> "word"],
      [text |-> <<"g", "e", "n", "e", "r", "a", "t", "e", " ", "r", "e", "p", "o", "r", "t", " ">>,
       exact |-> FALSE, action |-> "generate_report", cut |-> 16, mode |-> "rest"]
   >>

GitCommands ==
   <<
      [text |-> <<"g", "i", "t", " ", "s", "t", "a", "t", "u", "s">>,
       exact |-> TRUE, action |-> "status", cut |-> 0, mode |-> "none"],
      [text |-> <<"g", "i", "t", " ", "a", "d", "d", " ">>,
       exact |-> FALSE, action |-> "add", cut |-> 8, mode |-> "rest"],
      [text |-> <<"g", "i", "t", " ", "c", "o", "m", "m", "i", "t", " ">>,
       exact |-> FALSE, action |-> "commit", cut |-> 11, mode |-> "rest"],
      [text |-> <<"g", "i", "t", " ", "l", "o", "g">>,
       exact |-> TRUE, action |-> "log", cut |-> 0, mode |-> "none"],
      [text |-> <<"g", "i", "t", " ", "i", "n", "i", "t">>,
       exact |-> TRUE, action |-> "init", cut |-> 0, mode |-> "none"],
      [text |-> <<"g", "i", "t", " ", "b", "r", "a", "n", "c", "h">>,
       exact |-> TRUE, action |-> "branch", cut |-> 0, mode |-> "none"]
   >>

FilesystemCommands ==
   <<
      [text |-> <<"l", "i", "s", "t", " ", "f", "i", "l", "e", "s">>,
       exact |-> TRUE, action |-> "list", cut |-> 0, mode |-> "none"],
      [text |-> <<"l", "s">>,
       exact |-> TRUE, action |-> "list", cut |-> 0, mode |-> "none"],
      [text |-> <<"r", "e", "a", "d", " ", "f", "i", "l", "e", " ">>,
       exact |-> FALSE, action |-> "read", cut |-> 10, mode |-> "rest"],
      [text |-> <<"w", "r", "i", "t", "e", " ", "f", "i", "l", "e", " ">>,
       exact |-> FALSE, action |-> "write", cut |-> 11, mode |-> "split"]
   >>

\* the intent of the fixed command that row describes
CommandIntent(row, message) ==
    CHOOSE found \in
      {CASE row.mode = "none" -> Intent(row.action, Dot, <<>>)
         [] row.mode = "rest" -> Intent(row.action, rest, <<>>)
         [] row.mode = "word" ->
               Intent(row.action, IF rest = <<>> THEN Dot ELSE FirstWord(rest), <<>>)
         [] row.mode = "split" ->
               Intent(row.action, FirstWord(rest),
                      IF FirstSpace(rest) <= Len(rest) THEN AfterFirstSpace(rest)
                      ELSE HelloFromMCP)
         : rest \in {Strip(From(message, row.cut))}} : TRUE

\* a detect_*_intent: the first fixed command that message.lower().strip()
\* matches, otherwise what the LLM stage gave (llm_intent; NoIntent when the
\* answer was null, was not JSON, or the call raised)
Matches(row, message_lower) ==
    IF row.exact THEN message_lower = row.text ELSE StartsWith(message_lower, row.text)

detect_intent(commands, message, llm_intent) ==
    CHOOSE found \in
      {IF \A i \in 1..Len(commands) : ~Matches(commands[i], message_lower) THEN llm_intent
       ELSE CommandIntent(commands[CHOOSE i \in 1..Len(commands) :
                                       /\ Matches(commands[i], message_lower)
                                       /\ \A j \in 1..(i - 1) : ~Matches(commands[j], message_lower)],
                          message)
       : message_lower \in {Strip(Lower(message))}} : TRUE

\* what a tool-call wrapper of a client returned to an executor
TextResult == [success |-> TRUE, data |-> [content |-> <<[text |-> "text"]>>]]
EmptyContentResult == [success |-> TRUE, data |-> [content |-> <<>>]]
NoContentResult == [success |-> TRUE, data |-> [isError |-> FALSE]]
FailedResult == [success |-> FALSE, error |-> "error"]
BackendResults == {TextResult, EmptyContentResult, NoContentResult, FailedResult}

\* a tool call an executor made, and what an executor hands back: the calls
\* it made, the results it got, and its reply or the exception it raised
ToolCall(tool, arg, content) == [tool |-> tool, arg |-> arg, content |-> content]
Reply(from, kind) == [from |-> from, kind |-> kind]
NoCall(from, kind) == [calls |-> <<>>, results |-> <<>>, reply |-> Reply(from, kind)]
OneCall(call, result, from, kind) ==
    [calls |-> <<call>>, results |-> <<result>>, reply |-> Reply(from, kind)]

\* result['data'].get('content', [{}])[0].get('text', default): the kind of
\* reply it leads to, "raised" when content is an empty list
FirstText(data) ==
    IF "content" \notin DOMAIN data THEN "text"
    ELSE IF data.content = <<>> THEN "raised" ELSE "text"

\* the patterns of _detect_unsupported_operation
UnsupportedPatterns ==
    {<<"m", "o", "d", "i", "f", "i", "c", "a">>,
     <<"m", "o", "d", "i", "f", "i", "c", "a", "r">>,
     <<"e", "d", "i", "t", "a">>,
     <<"e", "d", "i", "t", "a", "r">>,
     <<"a", "c", "t", "u", "a", "l", "i", "z", "a">>,
     <<"a", "c", "t", "u", "a", "l", "i", "z", "a", "r">>,
     <<"c", "a", "m", "b", "i", "a">>,
     <<"c", "a", "m", "b", "i", "a", "r">>,
     <<"e", "l", "i", "m", "i", "n", "a">>,
     <<"e", "l", "i", "m", "i", "n", "a", "r">>,
     <<"r", "e", "m", "u", "e", "v", "e">>,
     <<"r", "e", "m", "o", "v", "e", "r">>,
     <<"b", "o", "r", "r", "a">>,
     <<"b", "o", "r", "r", "a", "r">>,
     <<"m", "u", "e", "v", "e">>,
     <<"m", "o", "v", "e", "r">>,
     <<"r", "e", "n", "o", "m", "b", "r", "a">>,
     <<"r", "e", "n", "o", "m", "b", "r", "a", "r">>,
     <<"c", "o", "p", "i", "a">>,
     <<"c", "o", "p", "i", "a", "r">>,
     <<"d", "u", "p", "l", "i", "c", "a">>,
     <<"d", "u", "p", "l", "i", "c", "a", "r">>,
     <<"e", "l", "i", "m", "i", "n", "a", " ", "d", "i", "r", "e", "c", "t", "o", "r", "i", "o">>,
     <<"e", "l", "i", "m", "i", "n", "a", "r", " ", "d", "i", "r", "e", "c", "t", "o", "r", "i", "o">>,
     <<"r", "m", "d", "i", "r">>,
     <<"b", "u", "s", "c", "a", " ", "a", "r", "c", "h", "i", "v", "o", "s">>,
     <<"b", "u", "s", "c", "a", "r", " ", "a", "r", "c", "h", "i", "v", "o", "s">>,
     <<"b", "u", "s", "c", "a", " ", "t", "e", "x", "t", "o">>,
     <<"b", "u", "s", "c", "a", "r", " ", "t", "e", "x", "t", "o">>,
     <<"g", "r", "e", "p">>,
     <<"f", "i", "n", "d">>,
     <<"s", "e", "a", "r", "c", "h">>,
     <<"b", "u", "s", "c", "a", "r">>,
     <<"c", "a", "m", "b", "i", "a", " ", "p", "e", "r", "m", "i", "s", "o", "s">>,
     <<"c", "h", "m", "o", "d">>,
     <<"c", "a", "m", "b", "i", "a", " ", "p", "r", "o", "p", "i", "e", "t", "a", "r", "i", "o">>,
     <<"c", "h", "o", "w", "n">>}

\* FilesystemExecutor._detect_unsupported_operation: a pattern is a substring
\* of the lowered original message
detect_unsupported_operation(intent, original_message) ==
    \E message_lower \in {Lower(original_message)} :
        AnyKeyword(UnsupportedPatterns, message_lower)

ArchivoCreado == <<"A", "r", "c", "h", "i", "v", "o", " ", "c", "r", "e", "a", "d", "o", " ", "d", "e", "s", "d", "e", " ", "M", "C", "P">>

\* FilesystemExecutor.execute_filesystem_intent
execute_filesystem_intent(intent, original_message, result) ==
    LET from == "filesystem" IN
    IF detect_unsupported_operation(intent, original_message) THEN NoCall(from, "unsupported")
    ELSE CASE intent.action = "list" ->
                OneCall(ToolCall("list_directory", intent.arg, <<>>), result, from,
                        IF result.success THEN FirstText(result.data) ELSE "error")
           [] intent.action = "read" ->
                OneCall(ToolCall("read_file", intent.arg, <<>>), result, from,
                        IF result.success THEN FirstText(result.data) ELSE "error")
           [] intent.action = "write" ->
                OneCall(ToolCall("write_file", intent.arg,
                                 IF intent.content = <<>> THEN ArchivoCreado ELSE intent.content),
                        result, from, IF result.success THEN "done" ELSE "error")
           [] intent.action = "create_directory" ->
                OneCall(ToolCall("create_directory", intent.arg, <<>>), result, from,
                        IF result.success THEN "done" ELSE "error")
           [] intent.action = "unsupported" -> NoCall(from, "unsupported")
           [] OTHER -> NoCall(from, "unrecognized")

\* GitExecutor.execute_git_intent
execute_git_intent(intent, original_message, result) ==
    LET from == "git" IN
    CASE intent.action \in {"status", "log", "init", "branch"} ->
            OneCall(ToolCall("git_" \o intent.action, Dot, <<>>), result, from,
                    IF result.success THEN FirstText(result.data) ELSE "error")
      [] intent.action = "add" ->
            IF intent.arg = <<>> THEN NoCall(from, "usage")
            ELSE OneCall(ToolCall("git_add", intent.arg, <<>>), result, from,
                         IF result.success THEN "done" ELSE "error")
      [] intent.action = "commit" ->
            IF intent.arg = <<>> THEN NoCall(from, "usage")
            ELSE OneCall(ToolCall("git_commit", intent.arg, <<>>), result, from,
                         IF result.success THEN FirstText(result.data) ELSE "error")
      [] OTHER -> NoCall(from, "unrecognized")

\* WeatherExecutor.execute_weather_intent: the call and the formatting are
\* inside its own try
execute_weather_intent(intent, original_message, result) ==
    LET from == "weather" IN
    IF intent.action \in {"weather", "forecast", "alerts"}
    THEN OneCall(ToolCall(intent.action, intent.arg, <<>>), result, from,
                 IF result.success THEN "text" ELSE "error")
    ELSE NoCall(from, "unrecognized")

\* what a tool method of GitAnalyzerServer returns: its own except branch
\* turns a failure (os.chdir on a missing path, a sub-analysis raising) into a
\* mapping with success false
ToolResult(tool, arg, raised) ==
    IF raised \/ (tool = "analyze_repository" /\ Text(arg) \notin ExistingDirs \cup {"."})
    THEN [success |-> FALSE, error |-> "str(e)"]
    ELSE IF tool = "analyze_repository"
    THEN [success |-> TRUE, analysis_id |-> "analysis_id", data |-> "analysis_result"]
    ELSE [success |-> TRUE, data |-> "data"]

\* the response line MCPServer.handle_request prints for the tools/call, and
\* what GitAnalyzerClient._send_mcp_request makes of it
AnalyzerResponse(tool, arg, raised) ==
    [response |-> handle_request([json |-> "object", id |-> 1, method |-> "tools/call",
                                  tool |-> tool], FALSE),
     result |-> ToolResult(tool, arg, raised)]

analyzer_send_mcp_request(tool, arg, raised) ==
    LET line == AnalyzerResponse(tool, arg, raised) IN
    IF line.response.kind = "error"
    THEN [success |-> FALSE, error |-> line.response.code]
    ELSE [success |-> TRUE, data |-> line.result]

\* GitAnalyzerExecutor.execute_git_analyzer_intent; transport = the call got
\* no usable response line
execute_git_analyzer_intent(intent, original_message, transport, raised) ==
    LET from == "git_analyzer" IN
    CHOOSE run \in {
       CASE intent.action = "analyze_repository" ->
               OneCall(ToolCall(intent.action, intent.arg, <<>>), result, from,
                       IF result.success THEN "complete" ELSE "error")
         [] intent.action \in {"get_code_metrics", "generate_report"} ->
               IF intent.arg = <<>> THEN NoCall(from, "usage")
               ELSE OneCall(ToolCall(intent.action, intent.arg, <<>>), result, from,
                            IF result.success THEN "summary" ELSE "error")
         [] intent.action \in {"detect_smells", "analyze_contributors", "get_hotspots"} ->
               OneCall(ToolCall(intent.action, intent.arg, <<>>), result, from,
                       IF result.success THEN "summary" ELSE "error")
         [] OTHER -> NoCall(from, "unrecognized")
       : result \in {IF transport.success
                     THEN analyzer_send_mcp_request(intent.action, intent.arg, raised)
                     ELSE transport}} : TRUE

\* AnthropicClient.get_response: send_message answers with the model's text
\* or, from its own except branch, with an apology
get_response(user_message, result) ==
    NoCall("conversation", IF result.success THEN "text" ELSE "error")

\* the order in which process_message consults the detectors
DetectorOrder_GitFirst == <<"git", "weather", "git_analyzer", "filesystem">>
DetectorOrder == <<"weather", "git_analyzer", "git", "filesystem">>

Detect(detector, message, llm) ==
    CASE detector = "weather" -> detect_intent(WeatherCommands, message, llm.weather)
      [] detector = "git_analyzer" -> detect_intent(GitAnalyzerCommands, message, llm.git_analyzer)
      [] detector = "git" -> detect_intent(GitCommands, message, llm.git)
      [] detector = "filesystem" -> detect_intent(FilesystemCommands, message, llm.filesystem)

Execute(detector, found, message, result, raised) ==
    CASE detector = "weather" -> execute_weather_intent(found, message, result)
      [] detector = "git_analyzer" -> execute_git_analyzer_intent(found, message, result, raised)
      [] detector = "git" -> execute_git_intent(found, message, result)
      [] detector = "filesystem" -> execute_filesystem_intent(found, message, result)

\* the body of the try of process_message from detector i on: consult it, run
\* its executor and return if it reports an intent, otherwise go on; after the
\* last one, general conversation. asked = the detectors consulted before i
RECURSIVE Dispatch(_, _, _, _, _, _)
Dispatch(i, asked, message, llm, result, raised) ==
    IF i > Len(DetectorOrder)
    THEN [asked |-> asked, ran |-> <<"conversation">>, found |-> NoIntent,
          run |-> get_response(message, result)]
    ELSE LET detector == DetectorOrder[i] IN
         CHOOSE outcome \in
           {IF found # NoIntent
            THEN [asked |-> Append(asked, [detector |-> detector, reported |-> TRUE]),
                  ran |-> <<detector>>, found |-> found,
                  run |-> Execute(detector, found, message, result, raised)]
            ELSE Dispatch(i + 1, Append(asked, [detector |-> detector, reported |-> FALSE]),
                          message, llm, result, raised)
            : found \in {Detect(detector, message, llm)}} : TRUE

\* MCPChatbot.process_message: the user message goes into the context first;
\* the reply goes in after the executor or the model returned; an exception
\* out of an executor is answered from the except branch, which adds nothing
MCPChatbot_process_message(user_message, llm, result, raised) ==
    /\ msgCount < MaxMessages
    /\ msgCount' = msgCount + 1
    /\ \E outcome \in {Dispatch(1, <<>>, user_message, llm, result, raised)} :
       LET with_user == AddMessage(context, max_context_length, "user", user_message)
           excepted == outcome.run.reply.kind = "raised"
       IN /\ consulted' = outcome.asked
          /\ executed' = outcome.ran
          /\ detected' = outcome.found
          /\ tool_calls' = outcome.run.calls
          /\ results' = outcome.run.results
          /\ response' = IF excepted THEN Reply("process_message", "exception")
                         ELSE outcome.run.reply
          /\ context' = IF excepted THEN with_user
                        ELSE AddMessage(with_user, max_context_length, "assistant",
                                        outcome.run.reply)
          /\ added' = IF excepted
                      THEN Append(added, [role |-> "user", content |-> user_message])
                      ELSE added \o <<[role |-> "user", content |-> user_message],
                                      [role |-> "assistant", content |-> outcome.run.reply]>>
    /\ last_message' = user_message
    /\ UNCHANGED <<max_context_length, fsVars, bridgeVars, syncVars, srvVars, anaVars>>

\* the messages typed, and what the LLM stages of the four detectors may answer
\* to a message (NoIntent: null, text that is not JSON, or the call raised)
UserMessages ==
    {<<"w", "e", "a", "t", "h", "e", "r", " ", "i", "n", " ", "x">>,
     <<"a", "n", "a", "l", "y", "z", "e", " ", "r", "e", "p", "o", "s", "i", "t", "o", "r", "y", " ", "/", "r", "e", "p", "o">>,
     <<"a", "n", "a", "l", "y", "z", "e", " ", "r", "e", "p", "o", "s", "i", "t", "o", "r", "y", " ", "/", "m", "i", "s", "s", "i", "n", "g">>,
     <<"g", "i", "t", " ", "s", "t", "a", "t", "u", "s">>,
     <<"l", "i", "s", "t", " ", "f", "i", "l", "e", "s">>,
     <<"r", "e", "a", "d", " ", "f", "i", "l", "e", " ", "n", "o", "t", "e", "s", ".", "t", "x", "t">>,
     <<"r", "e", "a", "d", " ", "f", "i", "l", "e", " ", "f", "i", "n", "d", "i", "n", "g", "s", ".", "t", "x", "t">>,
     <<"w", "r", "i", "t", "e", " ", "f", "i", "l", "e", " ", "a", ".", "t", "x", "t", " ", "s", "e", "a", "r", "c", "h">>,
     <<"h", "e", "l", "l", "o">>}

NoAnswer ==
    [weather |-> NoIntent, git_analyzer |-> NoIntent, git |-> NoIntent, filesystem |-> NoIntent]

LLMAnswers ==
    {NoAnswer,
     [NoAnswer EXCEPT !.weather = Intent("weather", <<"x">>, <<>>)],
     [NoAnswer EXCEPT !.git_analyzer = Intent("detect_smells", Dot, <<>>),
                      !.git = Intent("log", Dot, <<>>)],
     [NoAnswer EXCEPT !.git = Intent("branch", Dot, <<>>),
                      !.filesystem = Intent("list", Dot, <<>>)],
     [NoAnswer EXCEPT !.filesystem = Intent("create_directory", <<"d">>, <<>>)],
     [NoAnswer EXCEPT !.filesystem = Intent("unsupported", Dot, <<>>)]}

\* a message with the answers of the LLM stages to it: null to the advertised
\* commands, anything to free text and to 'git status'
Typed ==
    (UserMessages \X {NoAnswer})
    \cup ({<<"h", "e", "l", "l", "o">>,
           <<"g", "i", "t", " ", "s", "t", "a", "t", "u", "s">>} \X LLMAnswers)

MsgInit ==
    /\ BridgeOff
    /\ InitSync
    /\ InitServer
    /\ InitLater

MsgNext ==
    \E typed \in Typed, result \in BackendResults, raised \in BOOLEAN :
        /\ raised => result = TextResult
        /\ MCPChatbot_process_message(typed[1], typed[2], result, raised)

MsgSpec == MsgInit /\ [][MsgNext]_vars

\* ======================================================= FilesystemMCPClient
\* paths are sequences of characters. The position of the first "/" of a
\* path, or Len(path) + 1
FirstSlash(path) ==
    IF \E i \in 1..Len(path) : path[i] = "/"
    THEN CHOOSE i \in 1..Len(path) : path[i] = "/" /\ \A j \in 1..(i - 1) : path[j] # "/"
    ELSE Len(path) + 1

\* the components of a path, the empty ones left out
RECURSIVE Components(_)
Components(path) ==
    IF path = <<>> THEN <<>>
    ELSE LET k == FirstSlash(path) IN
         (IF k = 1 THEN <<>> ELSE <<SubSeq(path, 1, k - 1)>>)
         \o Components(SubSeq(path, k + 1, Len(path)))

\* what normpath does with "." and "..": kept = the components kept so far
RECURSIVE Resolve(_, _)
Resolve(components, kept) ==
    IF components = <<>> THEN kept
    ELSE IF Head(components) = <<".">> THEN Resolve(Tail(components), kept)
    ELSE IF Head(components) = <<".", ".">>
    THEN Resolve(Tail(components),
                 IF kept = <<>> THEN kept ELSE SubSeq(kept, 1, Len(kept) - 1))
    ELSE Resolve(Tail(components), Append(kept, Head(components)))

\* the absolute path made of components
RECURSIVE PathOf(_)
PathOf(components) ==
    IF components = <<>> THEN <<>>
    ELSE <<"/">> \o Head(components) \o PathOf(Tail(components))

\* os.path.abspath of an absolute path
abspath(path) ==
    LET kept == Resolve(Components(path), <<>>) IN
    IF kept = <<>> THEN <<"/">> ELSE PathOf(kept)

\* os.path.join(base, path): an absolute path replaces base
join(base, path) ==
    IF path # <<>> /\ path[1] = "/" THEN path ELSE base \o <<"/">> \o path

\* the directories above an absolute normalised path, nearest last
Ancestors(path) ==
    LET components == Components(path) IN
    {IF n = 0 THEN <<"/">> ELSE PathOf(SubSeq(components, 1, n)) :
        n \in 0..(Len(components) - 1)}

\* self.base_path = os.path.abspath(base_path), the directory the client is
\* confined to; the filesystem has a sibling directory whose name begins with
\* its name
base_path == abspath(<<"/", "w", "/", "b">>)

\* the path arguments of the calls
PathArguments ==
    {<<"a">>,
     <<"n">>,
     <<"d", "/", "n">>,
     <<".">>,
     <<".", ".">>,
     <<".", ".", "/", "c", "/", "a">>,
     <<"/", "e", "t", "c", "/", "p">>,
     <<".", ".", "/", "b", "2", "/", "a">>,
     <<".", ".", "/", "b", "2", "/", "n">>}

\* the security check of the four methods:
\* os.path.abspath(full_path).startswith(self.base_path)
Allowed(abs_path) == StartsWith(abs_path, base_path)

AccessDenied == "Access denied: Path outside allowed directory"
FsResult(op, path, success, error) ==
    [op |-> op, path |-> path, success |-> success, error |-> error]
Touch(kind, path) == [kind |-> kind, path |-> path]

\* FilesystemMCPClient.read_file
read_file(file_path) ==
    \E abs_path \in {abspath(join(base_path, file_path))} :
       /\ IF ~Allowed(abs_path)
          THEN /\ fs_result' = FsResult("read_file", file_path, FALSE, AccessDenied)
               /\ fs_touched' = {}
          ELSE IF abs_path \notin fs_files \cup fs_dirs
          THEN /\ fs_result' = FsResult("read_file", file_path, FALSE, "File not found")
               /\ fs_touched' = {}
          ELSE IF abs_path \notin fs_files
          THEN /\ fs_result' = FsResult("read_file", file_path, FALSE, "Path is not a file")
               /\ fs_touched' = {}
          ELSE /\ fs_result' = FsResult("read_file", file_path, TRUE, "")
               /\ fs_touched' = {Touch("read", abs_path)}
       /\ UNCHANGED <<fs_files, fs_dirs, bridgeVars, syncVars, srvVars, anaVars, ctxVars, msgVars>>

\* FilesystemMCPClient.write_file: os.makedirs of the directory, then
\* open(full_path, 'w'); either raises when a file or a directory is in its way
write_file(file_path) ==
    \E abs_path \in {abspath(join(base_path, file_path))} :
       /\ IF ~Allowed(abs_path)
          THEN /\ fs_result' = FsResult("write_file", file_path, FALSE, AccessDenied)
               /\ fs_touched' = {}
               /\ UNCHANGED <<fs_files, fs_dirs>>
          ELSE IF Ancestors(abs_path) \cap fs_files # {}
          THEN /\ fs_result' = FsResult("write_file", file_path, FALSE, "str(e)")
               /\ fs_touched' = {}
               /\ UNCHANGED <<fs_files, fs_dirs>>
          ELSE IF abs_path \in fs_dirs
          THEN /\ fs_result' = FsResult("write_file", file_path, FALSE, "str(e)")
               /\ fs_touched' = {}
               /\ UNCHANGED <<fs_files, fs_dirs>>
          ELSE /\ fs_result' = FsResult("write_file", file_path, TRUE, "")
               /\ fs_dirs' = fs_dirs \cup Ancestors(abs_path)
               /\ fs_files' = fs_files \cup {abs_path}
               /\ fs_touched' = {Touch("makedirs", d) : d \in Ancestors(abs_path) \ fs_dirs}
                                \cup {Touch("write", abs_path)}
       /\ UNCHANGED <<bridgeVars, syncVars, srvVars, anaVars, ctxVars, msgVars>>

\* FilesystemMCPClient.list_directory
list_directory(dir_path) ==
    \E abs_path \in {abspath(join(base_path, dir_path))} :
       /\ IF ~Allowed(abs_path)
          THEN /\ fs_result' = FsResult("list_directory", dir_path, FALSE, AccessDenied)
               /\ fs_touched' = {}
          ELSE IF abs_path \notin fs_files \cup fs_dirs
          THEN /\ fs_result' = FsResult("list_directory", dir_path, FALSE, "Directory not found")
               /\ fs_touched' = {}
          ELSE IF abs_path \notin fs_dirs
          THEN /\ fs_result' = FsResult("list_directory", dir_path, FALSE, "Path is not a directory")
               /\ fs_touched' = {}
          ELSE /\ fs_result' = FsResult("list_directory", dir_path, TRUE, "")
               /\ fs_touched' = {Touch("listdir", abs_path)}
       /\ UNCHANGED <<fs_files, fs_dirs, bridgeVars, syncVars, srvVars, anaVars, ctxVars, msgVars>>

\* FilesystemMCPClient.delete_file
delete_file(file_path) ==
    \E abs_path \in {abspath(join(base_path, file_path))} :
       /\ IF ~Allowed(abs_path)
          THEN /\ fs_result' = FsResult("delete_file", file_path, FALSE, AccessDenied)
               /\ fs_touched' = {}
               /\ UNCHANGED fs_files
          ELSE IF abs_path \notin fs_files \cup fs_dirs
          THEN /\ fs_result' = FsResult("delete_file", file_path, FALSE, "File not found")
               /\ fs_touched' = {}
               /\ UNCHANGED fs_files
          ELSE IF abs_path \notin fs_files
          THEN /\ fs_result' = FsResult("delete_file", file_path, FALSE, "Path is not a file")
               /\ fs_touched' = {}
               /\ UNCHANGED fs_files
          ELSE /\ fs_result' = FsResult("delete_file", file_path, TRUE, "")
               /\ fs_files' = fs_files \ {abs_path}
               /\ fs_touched' = {Touch("remove", abs_path)}
       /\ UNCHANGED <<fs_dirs, bridgeVars, syncVars, srvVars, anaVars, ctxVars, msgVars>>

FsInit ==
    /\ BridgeOff
    /\ InitSync
    /\ InitServer
    /\ InitLater

FsNext ==
    \/ \E file_path \in PathArguments : read_file(file_path)
    \/ \E file_path \in PathArguments : write_file(file_path)
    \/ \E dir_path \in PathArguments : list_directory(dir_path)
    \/ \E file_path \in PathArguments : delete_file(file_path)

FsSpec == FsInit /\ [][FsNext]_vars

\* ================================================================ claims
Requests(h) == {i \in 1..Len(stdinLog[h]) : stdinLog[h][i].id # NoId}
ToolCalls(h) == {i \in 1..Len(stdinLog[h]) : stdinLog[h][i].method = "tools/call"}
Reading(h) == {t \in Tasks : pc[t] \in {"reading", "hs_reading"} /\ target[t] = h}

\* C1: a tools/call request is on a process's stdin only if that process
\* answered an initialize request without an error before (handshake Ready)
C1_InitializedBeforeToolCall ==
    \A h \in Handles : ToolCalls(h) # {} => hs[h] = "Ready"

\* C2: a call that waits for its response line returns within the timeout:
\* it never waits more than TimeoutTicks ticks
C2_CallReturnsInBoundedTime ==
    \A t \in Tasks : pc[t] = "reading" => waited <= TimeoutTicks

\* C3: a result built from a response line is built from the line that
\* answers the request this call wrote
C3_ResultFromOwnResponse ==
    (ret.op = "call" /\ ret.src # 0) => ret.src = ret.req

\* C4: on every handle at most one request is waiting for its response,
\* whatever the interleaving of the callers
C4_OneOutstandingPerHandle ==
    \A h \in Handles : Cardinality(Reading(h)) <= 1

\* C4 witness: a call waits on a handle on which an earlier call has
\* returned, while another task is idle and could call
C4_Witness ==
    \E t \in Tasks, u \in Tasks :
        /\ t # u
        /\ pc[t] = "reading"
        /\ Blocked(t)
        /\ pc[u] = "idle"
        /\ ret.op = "call"
        /\ ret.h = target[t]
        /\ ret.req # 0

\* C5: the ids of the requests written to one process strictly increase
C5_IdsStrictlyIncrease ==
    \A h \in Handles : \A i \in Requests(h), j \in Requests(h) :
        i < j => stdinLog[h][i].id < stdinLog[h][j].id

\* C6: when MCPChatbot.initialize has returned, every backend whose own start
\* succeeds whenever it is attempted (the two started by Popen alone, when
\* their executable can be launched) has been started
C6_PartialStart ==
    initResult # "none" =>
        \A h \in {"filesystem", "analyzer"} : spawnOk[h] => hs[h] # "None"

\* C7: on a git process whose handshake failed no tools/call is ever written
C7_FailedHandshakeNeverUsed ==
    hs["git"] = "Failed" => ToolCalls("git") = {}

\* C8: when run_interactive has returned after a failed start-up, no child
\* process is left running
C8_NoChildOutlivesFailedStart ==
    (botpc = "returned" /\ initResult = "failed") =>
        \A h \in Handles : proc[h] # "running"

\* C9: a close() called after an earlier close() returned finds no process
\* field set and performs no terminate or wait
C9_SecondCloseDoesNothing ==
    \A c \in Clients : ~reclosed[c]

\* C10: MCPClient.close signals every process whatever happened to the
\* others: once close has returned after a failure on the filesystem process
\* (its field is still set), the git process, if it still runs, was sent the
\* termination signal all the same
C10_CloseTerminatesAll ==
    (closedOnce["mcp"] /\ process_field["filesystem"]) =>
        (proc["git"] = "running" => termSent["git"])

\* C11: close() never waits on a process beyond the bounded time: a process
\* that has not exited by then is force-killed and close goes on
C11_CloseWaitBounded ==
    \A t \in Tasks : pc[t] = "close_wait" => waited <= TimeoutTicks

\* the shape every tool-call wrapper promises: a boolean success, with data
\* when it is true and error when it is false
WellShaped(v) ==
    /\ "success" \in DOMAIN v
    /\ v.success \in BOOLEAN
    /\ IF v.success THEN "data" \in DOMAIN v ELSE "error" \in DOMAIN v

\* C12: whatever the backend did, the mapping a tool-call wrapper of
\* MCPClient, GitAnalyzerClient or WeatherRemoteClient returned has a boolean
\* success member, with data when success is true and error when it is false
C12_WrapperResultShape ==
    ret.op = "call" => WellShaped(ret.value)

\* task t reads, in this step, a response line that answers its own request
ReadsOwnResponse(t) ==
    /\ pc[t] = "reading"
    /\ pc'[t] = "idle"
    /\ stdout[SelectProcess(target[t])] # <<>>
    /\ Head(stdout[SelectProcess(target[t])]).kind # "garbage"
    /\ Head(stdout[SelectProcess(target[t])]).re = reqPos[t]

\* C13: a call that reads the response to its own request returns
\* {success: true, data: R} when the line carries the result R and
\* {success: false, error: E} when it carries the error E, the payload being
\* the one of the line
C13_ResponseNormalized ==
    [][\A t \in Tasks : ReadsOwnResponse(t) =>
          LET line == Head(stdout[SelectProcess(target[t])]) IN
          /\ ret'.op = "call"
          /\ ret'.value.success = ~HasError(line)
          /\ HasError(line) => ret'.value = [success |-> FALSE, error |-> ErrorOf(line)]
          /\ ~HasError(line) => ret'.value = [success |-> TRUE, data |-> ResultOf(line)]
      ]_vars

\* a call has returned the error payload of the response to its own request
C13_Witness ==
    /\ ret.op = "call"
    /\ ret.src # 0
    /\ ret.src = ret.req
    /\ ret.value = [success |-> FALSE, error |-> <<"error", ret.req>>]

\* the last operation that returned was a tool call on backend h that failed
\* with a transport error: nothing to read, or an exception of the write, the
\* flush or json.loads
TransportFailed(h) ==
    /\ ret.op = "call"
    /\ ret.h = h
    /\ ret.value \in {NoResponseError, ExceptionError}

\* a tools/call request is written to process h in this step
CallWritten(h) ==
    stdinLog'[h] = Append(stdinLog[h], Msg("tools/call", RequestId(h)))

\* C14: once a call on a handle has failed with a transport error and the
\* handle has not been restarted, no tool call is written to its process
C14_DeadAfterTransportError ==
    [][\A h \in Handles : TransportFailed(h) => ~CallWritten(h)]_vars

\* task t takes, in this step, a step of a tool call addressed to backend h:
\* it returns at once, it writes the request, or it reads and returns
CallStep(t, h) ==
    \/ pc[t] = "idle" /\ pc' = pc /\ opCount' # opCount /\ ret'.op = "call" /\ ret'.h = h
    \/ pc[t] = "idle" /\ pc'[t] = "reading" /\ target'[t] = h
    \/ pc[t] = "reading" /\ pc'[t] = "idle" /\ target[t] = h

\* C15: a step of a tool call on one backend leaves the process handle and
\* both pipes of every other backend as they were
C15_CallTouchesOwnBackendOnly ==
    [][\A t \in Tasks, h \in Handles : CallStep(t, h) =>
          \A g \in Handles \ {h} :
              /\ process_field'[g] = process_field[g]
              /\ stdinLog'[g] = stdinLog[g]
              /\ stdout'[g] = stdout[g]
      ]_vars

\* a git call has succeeded while the filesystem process is dead
C15_Witness ==
    /\ ret.op = "call"
    /\ ret.h = "git"
    /\ ret.ok
    /\ process_field["filesystem"]
    /\ proc["filesystem"] = "exited"

\* the initialized notification is written to process h in this step
NotificationWritten(h) ==
    stdinLog'[h] = Append(stdinLog[h], Msg("notifications/initialized", NoId))

\* C16: the notification is written only in the step that reads, after the
\* initialize request, a response line without an error, and the handshake
\* reports success exactly when it wrote the notification; when it reports
\* failure it has written nothing
C16_NotificationAfterAcceptedInitialize ==
    [][\A h \in Handles :
          /\ NotificationWritten(h) =>
                /\ stdinLog[h] = <<Msg("initialize", InitRequestId)>>
                /\ stdout[h] # <<>>
                /\ Head(stdout[h]).kind # "garbage"
                /\ ~HasError(Head(stdout[h]))
                /\ stdout'[h] = Tail(stdout[h])
          /\ (\E t \in Tasks : pc[t] = "hs_reading" /\ target[t] = h /\ pc'[t] = "idle") =>
                /\ ret'.op = "start"
                /\ ret'.ok <=> NotificationWritten(h)
                /\ ~ret'.ok => stdinLog'[h] = stdinLog[h]
      ]_vars

\* start_git_server has returned True after writing the notification
C16_Witness ==
    /\ ret = Ret("start", "git", TRUE, 0, 0)
    /\ hs["git"] = "Ready"
    /\ stdinLog["git"] = <<Msg("initialize", InitRequestId),
                           Msg("notifications/initialized", NoId)>>

\* C17: while the field of a backend is None (never started, or closed) no
\* step writes to or reads from its process, and a call addressed to it
\* returns the not-started failure at once without touching any pipe; after a
\* close that terminated the process no tool call is written to it
C17_UnregisteredFailsAtOnce ==
    [][\A h \in Handles :
          /\ (~process_field[h] /\ ~process_field'[h]) =>
                /\ stdinLog'[h] = stdinLog[h]
                /\ stdout'[h] = stdout[h]
                /\ (\E t \in Tasks : CallStep(t, h)) =>
                      /\ ret' = CallRet(h, NotStartedError, 0, 0)
                      /\ pc' = pc
                      /\ stdinLog' = stdinLog
                      /\ stdout' = stdout
          /\ (closedOnce[ClientOf(h)] /\ termSent[h]) => ~CallWritten(h)
      ]_vars

\* a call on a backend that close() terminated has returned the not-started
\* failure
C17_Witness ==
    /\ ret.op = "call"
    /\ ret.h \in Handles
    /\ ret.value = NotStartedError
    /\ closedOnce[ClientOf(ret.h)]
    /\ termSent[ret.h]

\* C18: each name is bound to the client of the first add_mcp_server under it
C18_FirstRegistrationKept ==
    \A name \in ServerNames :
        firstClient[name] # NoClient => mcp_servers[name] = firstClient[name]

\* the registrations initialize_mcp_servers makes
InitializedServers ==
    [name \in ServerNames |->
        IF name = "filesystem" THEN "FilesystemMCPClient"
        ELSE IF name = "git" THEN "GitMCPClient"
        ELSE "GitAnalyzerMCPServer"]

\* C20: with the three servers registered, a command of the demo is handled by
\* the client of the server it is advertised for
C20_AdvertisedCommandReachesItsServer ==
    \A d \in DemoCommands :
        (mcp_servers = InitializedServers /\ handled.msg = d.text) =>
            handled.server = d.server

\* C19: every line the git-analyzer server has written answers a message
\* that carried an id
C19_NoResponseToNotification ==
    \A i \in 1..Len(srvOut) : srvOut[i].id # NoId

\* C21: a step in which the git-analyzer server reads a line that is a JSON
\* object appends exactly one response, carrying the id of that line, to its
\* output; no other step writes to the output
C21_OneResponsePerRequestInOrder ==
    [][IF Len(srvIn') < Len(srvIn)
       THEN Head(srvIn).json = "object" =>
               /\ Len(srvOut') = Len(srvOut) + 1
               /\ SubSeq(srvOut', 1, Len(srvOut)) = srvOut
               /\ srvOut'[Len(srvOut')].id = Head(srvIn).id
       ELSE srvOut' = srvOut
      ]_vars

\* the server has answered, in order, a known tool, a tool that raised and
\* an unknown tool or method, the first two under different ids
C21_Witness ==
    /\ Len(srvOut) = 3
    /\ srvOut[1].code = 0
    /\ srvOut[2].code = -32603
    /\ srvOut[3].code = -32601
    /\ srvOut[1].id # srvOut[2].id

\* C22: once initialize has succeeded the loop is left only into close of the
\* MCP client, the close of the git analyzer client begins only when that one
\* has returned, and run_interactive returns only from the close of the
\* weather client that follows the close of the git analyzer client
C22_CleanupOnEveryExit ==
    [][/\ (botpc = "loop" /\ botpc' # "loop") =>
             /\ botpc' = "closing_mcp"
             /\ pc'[BotTask] = "close_term"
             /\ target'[BotTask] = CloseOrder("mcp")[1]
       /\ (botpc # "closing_analyzer" /\ botpc' = "closing_analyzer") =>
             /\ botpc = "closing_mcp"
             /\ pc[BotTask] = "idle"
             /\ pc'[BotTask] = "close_term"
             /\ target'[BotTask] = CloseOrder("analyzer_client")[1]
       /\ (botpc # "returned" /\ botpc' = "returned" /\ initResult = "ok") =>
             /\ botpc = "closing_analyzer"
             /\ pc[BotTask] = "idle"
      ]_vars

\* run_interactive has returned after a successful initialize
C22_Witness ==
    /\ botpc = "returned"
    /\ initResult = "ok"

\* C26: the cache holds, under every id an analysis has returned, the data of
\* the analysis that returned it first and nothing under any other id, and a
\* report that succeeded was built from the data of the analysis that
\* returned its id
C26_ReportOfTheAnalysisThatReturnedId ==
    /\ \A id \in AnalysisIds : analysis_cache[id] = issued[id]
    /\ (lastResult.tool = "generate_report" /\ lastResult.success) =>
          /\ issued[lastResult.analysis_id] # NoData
          /\ lastResult.data = issued[lastResult.analysis_id]

\* C30: the working directory of the server process is the one it was
\* started in, after every analyze_repository
C30_WorkingDirectoryRestored ==
    cwd = StartDir

\* an analysis has failed in a sub-analysis after one that succeeded in the
\* repository directory
C30_Witness ==
    /\ lastResult = [tool |-> "analyze_repository", success |-> FALSE, error |-> "raised"]
    /\ \E id \in AnalysisIds : analysis_cache[id] # NoData


\* the last k elements of lst, all of it when it has fewer
MostRecent(lst, k) == SubSeq(lst, (IF Len(lst) > k THEN Len(lst) - k ELSE 0) + 1, Len(lst))

\* C25: after any sequence of add_message, add_interaction and clear_context
\* the context holds at most 2 * max_context_length messages, and they are
\* exactly the most recently added messages since the last clear_context, in
\* insertion order.
C25_ContextIsTheMostRecentMessages ==
    /\ Len(context) <= 2 * max_context_length
    /\ context = MostRecent(added, 2 * max_context_length)

\* the filesystem tool of each action of a filesystem intent
FilesystemTool ==
    [list |-> "list_directory", read |-> "read_file", write |-> "write_file",
     create_directory |-> "create_directory"]

\* C23: process_message consults the detectors in the order weather, git
\* analyzer, git, filesystem and runs exactly the executor of the first one
\* that reports an intent: no later detector is consulted, no other executor
\* runs, and the message goes to general conversation only when all four
\* reported none.
C23_FirstReportingDetectorRuns ==
    msgCount > 0 =>
        /\ Len(consulted) \in 1..4
        /\ \A i \in 1..Len(consulted) :
              /\ consulted[i].detector = <<"weather", "git_analyzer", "git", "filesystem">>[i]
              /\ i < Len(consulted) => ~consulted[i].reported
        /\ IF consulted[Len(consulted)].reported
           THEN executed = <<consulted[Len(consulted)].detector>>
           ELSE Len(consulted) = 4 /\ executed = <<"conversation">>
        /\ response.from \in {executed[1], "process_message"}

C23_Witness ==
    /\ executed = <<"git">>
    /\ Len(consulted) = 3
    /\ tool_calls # <<>>
    /\ Len(context) = 4

\* C24: after any sequence of process_message calls the context strictly
\* alternates user and assistant entries, every call having appended exactly
\* one user message and one assistant message, the calls that returned an
\* error text included.
C24_ContextAlternates ==
    /\ \A i \in 1..(Len(context) - 1) : context[i].role # context[i + 1].role
    /\ context # <<>> => context[Len(context)].role = "assistant"

\* C27: when the analyzer backend answers a tool call with a result whose own
\* success member is false, GitAnalyzerExecutor returns an error message, not
\* a summary.
C27_ToolFailureIsReported ==
    \A i \in 1..Len(results) :
        (/\ executed = <<"git_analyzer">>
         /\ results[i].success
         /\ ~results[i].data.success) => response.kind = "error"

\* C29: for an intent whose action is list, read, write or create_directory,
\* execute_filesystem_intent issues exactly one call of the corresponding
\* filesystem tool with the intent's path, whatever the original message
\* contains.
C29_OneFilesystemCallPerIntent ==
    (executed = <<"filesystem">> /\ detected.action \in DOMAIN FilesystemTool) =>
        /\ Len(tool_calls) = 1
        /\ tool_calls[1].tool = FilesystemTool[detected.action]
        /\ tool_calls[1].arg = detected.arg

\* path is base_path or lies in the tree below it
Inside(path) == path = base_path \/ StartsWith(path, base_path \o <<"/">>)

\* C28: read_file, write_file, list_directory and delete_file touch the
\* filesystem only inside the tree rooted at base_path; a path that resolves
\* outside it is rejected with success false and nothing is read, written,
\* made or removed.
C28_ConfinedToBasePath ==
    /\ \A t \in fs_touched : Inside(t.path)
    /\ (fs_result.op # "none" /\ ~Inside(abspath(join(base_path, fs_result.path)))) =>
          ~fs_result.success /\ fs_touched = {}

====
